---- MODULE Spec2Model ----
(***************************************************************************)
(* FitScore AI backend (server.ts): the /analyze request handler, the      *)
(* per-resume model-call loop and the tagged-text parser parseModelOutput. *)
(*                                                                         *)
(* Text is kept as TLA+ strings; a character is a string of length one.    *)
(* A JavaScript value that may be null/undefined is a sequence of length   *)
(* at most one: <<>> is null/undefined, <<v>> is the value v.              *)
(***************************************************************************)
EXTENDS Integers, Sequences, FiniteSets, TLC

VARIABLES
    req,        \* req[q]: the HTTP request handler run q serves, <<>> before it arrives
    pc,         \* pc[q]: "idle", "json" (await req.json()), "await" (await runZypherTask), "done"
    jd,         \* jd[q]: the handler's local jd (line 173)
    resumes,    \* resumes[q]: the handler's local resumes (line 174)
    idx,        \* idx[q]: position of the for-of loop over resumes (line 191)
    results,    \* results[s]: the results array of the handler run that owns slot s (line 189)
    calls,      \* calls[q]: the model calls run q has started, each with its outcome once completed
    thrown,     \* thrown[q]: the exception raised outside the per-candidate try, <<>> if none
    responses,  \* responses[q]: what the handler run returned (or let escape), in order
    raw,        \* input of the parser run (parser specification)
    parsed,     \* result of the parser run, <<>> before it
    tmpl,       \* the parts a tagged reply is built from (parser specification)
    phase       \* which parser run was made: "init", "template", "prose", "raw"

vars == <<req, pc, jd, resumes, idx, results, calls, thrown, responses,
          raw, parsed, tmpl, phase>>

serverVars == <<req, pc, jd, resumes, idx, results, calls, thrown, responses>>
parserVars == <<raw, parsed, tmpl, phase>>

-----------------------------------------------------------------------------
(* Bounds *)

\* Longest resumes list a request carries.
MaxResumes == 3
\* Number of request handler runs that can be in progress at once.
MaxRequests == 2
\* Longest token sequence an arbitrary raw reply is built from.
MaxTokens == 3

-----------------------------------------------------------------------------
(* JavaScript string primitives *)

Null == <<>>
Some(v) == <<v>>

Min(S) == CHOOSE x \in S : \A y \in S : x <= y
Max(S) == CHOOSE x \in S : \A y \in S : x >= y

\* s.charAt(i - 1): positions are 1-based here.
CharAt(s, i) == SubSeq(s, i, i)

\* s.slice(i - 1)
SliceFrom(s, i) == SubSeq(s, i, Len(s))

\* WhiteSpace and LineTerminator of ECMAScript, which both \s and trim() use
\* (restricted to the ASCII ones).
IsWhiteSpace(c) == c \in {" ", "\t", "\n", "\r", "\f"}

\* The characters the regex dot does not match.
IsLineTerminator(c) == c \in {"\n", "\r"}

IsDigit(c) == c \in {"0", "1", "2", "3", "4", "5", "6", "7", "8", "9"}

\* String.prototype.trim
Trim(s) ==
    LET keep == {i \in 1..Len(s) : ~IsWhiteSpace(CharAt(s, i))}
    IN  IF keep = {} THEN "" ELSE SubSeq(s, Min(keep), Max(keep))

\* s.indexOf(c), 1-based; 0 when c does not occur (JavaScript's -1).
IndexOf(s, c) ==
    LET hits == {i \in 1..Len(s) : CharAt(s, i) = c}
    IN  IF hits = {} THEN 0 ELSE Min(hits)

UpperAlpha == "ABCDEFGHIJKLMNOPQRSTUVWXYZ"
LowerAlpha == "abcdefghijklmnopqrstuvwxyz"

UpperChars == {CharAt(UpperAlpha, i) : i \in 1..Len(UpperAlpha)}

LowerOf ==
    [c \in UpperChars |->
        CharAt(LowerAlpha, Min({i \in 1..Len(UpperAlpha) : CharAt(UpperAlpha, i) = c}))]

\* Canonical form of a character under the regex flag i.
FoldCase(c) == IF c \in UpperChars THEN LowerOf[c] ELSE c

\* Number(digits) for a run of decimal digits.
RECURSIVE Number(_)
Number(d) ==
    IF d = "" THEN 0
    ELSE 10 * Number(SubSeq(d, 1, Len(d) - 1))
         + (IndexOf("0123456789", CharAt(d, Len(d))) - 1)

\* String(n) of an integer, as a template literal renders it.
RECURSIVE NatToString(_)
NatToString(n) ==
    IF n < 10 THEN CharAt("0123456789", n + 1)
    ELSE NatToString(n \div 10) \o CharAt("0123456789", (n % 10) + 1)

IntToString(n) == IF n < 0 THEN "-" \o NatToString(0 - n) ELSE NatToString(n)

-----------------------------------------------------------------------------
(* The regular expressions of parseModelOutput *)

NoMatch == [found |-> FALSE, group |-> ""]
Match(g) == [found |-> TRUE, group |-> g]

\* The literal tag matches at position i, ignoring case.
TagAt(s, i, tag) ==
    /\ i + Len(tag) - 1 <= Len(s)
    /\ \A k \in 1..Len(tag) : FoldCase(CharAt(s, i + k - 1)) = FoldCase(CharAt(tag, k))

\* Greedy \s* from position i: the first position that holds no white space.
SkipSpaces(s, i) ==
    Min({j \in i..(Len(s) + 1) : j = Len(s) + 1 \/ ~IsWhiteSpace(CharAt(s, j))})

\* Greedy \d+ from position i (which holds a digit): the last digit of the run.
DigitsEnd(s, i) ==
    Max({j \in i..Len(s) : \A k \in i..j : IsDigit(CharAt(s, k))})

\* Greedy .+ from position i (which holds no line terminator): the last
\* character before the next line terminator.
LineEnd(s, i) ==
    Max({j \in i..Len(s) : \A k \in i..j : ~IsLineTerminator(CharAt(s, k))})

\* TAG\s*: at position i: the position after the colon, 0 when there is no match.
MarkerEnd(s, i, tag) ==
    IF ~TagAt(s, i, tag) THEN 0
    ELSE LET j == SkipSpaces(s, i + Len(tag))
         IN  IF j <= Len(s) /\ CharAt(s, j) = ":" THEN j + 1 ELSE 0

\* /TAG\s*:\s*(\d+)/i tried at position i.
ScoreMatchAt(s, i, tag) ==
    LET c == MarkerEnd(s, i, tag)
        k == SkipSpaces(s, c)
    IN  IF c = 0 THEN NoMatch
        ELSE IF k <= Len(s) /\ IsDigit(CharAt(s, k))
             THEN Match(SubSeq(s, k, DigitsEnd(s, k)))
             ELSE NoMatch

\* /VERDICT\s*:\s*(.+)/i tried at position i. \s* is greedy and gives white
\* space back one character at a time until the dot finds a character that is
\* no line terminator.
VerdictMatchAt(s, i) ==
    LET c == MarkerEnd(s, i, "VERDICT")
        k == SkipSpaces(s, c)
        starts == {j \in c..k : j <= Len(s) /\ ~IsLineTerminator(CharAt(s, j))}
    IN  IF c = 0 \/ starts = {} THEN NoMatch
        ELSE Match(SubSeq(s, Max(starts), LineEnd(s, Max(starts))))

\* The positions an expression anchored with ^ would try.
SearchPositionsAnchored(s) == IF Len(s) > 0 THEN {1} ELSE {}

\* The positions a search tries, in order: every position of the string.
SearchPositions(s) == 1..Len(s)

\* raw.match(/TAG\s*:\s*(\d+)/i): the leftmost match.
ScoreMatch(s, tag) ==
    LET hits == {i \in SearchPositions(s) : ScoreMatchAt(s, i, tag).found}
    IN  IF hits = {} THEN NoMatch ELSE ScoreMatchAt(s, Min(hits), tag)

\* raw.match(/VERDICT\s*:\s*(.+)/i)
VerdictMatch(s) ==
    LET hits == {i \in SearchPositions(s) : VerdictMatchAt(s, i).found}
    IN  IF hits = {} THEN NoMatch ELSE VerdictMatchAt(s, Min(hits))

\* raw.search(/REPORT\s*:/i), 1-based; 0 when there is no match.
ReportSearch(s) ==
    LET hits == {i \in SearchPositions(s) : MarkerEnd(s, i, "REPORT") # 0}
    IN  IF hits = {} THEN 0 ELSE Min(hits)

NoVerdict == "No clear verdict parsed"

\* Lines 126-127 with the score clamped to the documented range 0-10.
ScoreOfClamped(m) ==
    IF ~m.found THEN Null
    ELSE IF Number(m.group) > 10 THEN Some(10) ELSE Some(Number(m.group))

\* Lines 126-127
ScoreOf(m) == IF m.found THEN Some(Number(m.group)) ELSE Null

VerdictOf(m) == IF m.found THEN Trim(m.group) ELSE NoVerdict

\* Lines 132-139 with the line break looked for in raw instead of after.
ReportOfFirstLineBreak(s) ==
    LET reportIndex == ReportSearch(s)
        firstNewline == IndexOf(s, "\n")
    IN  IF reportIndex = 0 THEN s
        ELSE IF firstNewline # 0 THEN Trim(SliceFrom(s, firstNewline + 1))
             ELSE Trim(SliceFrom(s, reportIndex))

\* Lines 132-139: the report is cut out of the text from the marker on.
ReportOf(s) ==
    LET reportIndex == ReportSearch(s)
        after == SliceFrom(s, reportIndex)
        firstNewline == IndexOf(after, "\n")
    IN  IF reportIndex = 0 THEN s
        ELSE IF firstNewline # 0 THEN Trim(SliceFrom(after, firstNewline + 1))
             ELSE Trim(after)

parseModelOutput(s) ==
    [fitScore  |-> ScoreOf(ScoreMatch(s, "FIT_SCORE")),
     riskScore |-> ScoreOf(ScoreMatch(s, "RISK_SCORE")),
     verdict   |-> VerdictOf(VerdictMatch(s)),
     report    |-> ReportOf(s)]

-----------------------------------------------------------------------------
(* The model call: runZypherTask *)

\* One event of the agent's event stream; an event of another type carries no text.
TextDelta(t) == [type |-> "text-delta", delta |-> t, content |-> ""]
TextEvent(t) == [type |-> "text", delta |-> "", content |-> t]
OtherEvent == [type |-> "tool-use", delta |-> "", content |-> ""]

\* Lines 62-70: the text of the text-delta and text events, in order; an
\* empty delta or content is falsy and adds nothing.
RECURSIVE Accumulate(_)
Accumulate(events) ==
    IF events = <<>> THEN ""
    ELSE LET e == Head(events)
             piece == IF e.type = "text-delta" /\ e.delta # "" THEN e.delta
                      ELSE IF e.type = "text" /\ e.content # "" THEN e.content
                      ELSE ""
         IN  piece \o Accumulate(Tail(events))

\* A value thrown by the call: an Error with a message, or any other value
\* with its String() rendering.
ErrorValue(m) == [isError |-> TRUE, message |-> m, string |-> "Error: " \o m]
ThrownString(s) == [isError |-> FALSE, message |-> "", string |-> s]

\* What one run of the agent does: the events it emits, and whether the
\* stream then ends or throws.
Completes(events) == [threw |-> FALSE, events |-> events, error |-> ErrorValue("")]
Fails(err) == [threw |-> TRUE, events |-> <<>>, error |-> err]

\* Line 72: the accumulated text, trimmed (for a run that does not throw).
runZypherTask(outcome) == Trim(Accumulate(outcome.events))

PromptHead ==
    "\nYou are a ruthless startup founder reviewing candidates.\n"
    \o "IMPORTANT: You MUST respond in the following EXACT plain-text format.\n"
    \o "FIT_SCORE: <integer 0-10>\nRISK_SCORE: <integer 0-10>\n"
    \o "VERDICT: <short one-sentence founder-style verdict>\nREPORT:\n"
    \o "<multi-line markdown analysis>\n\n"
    \o "---------------- JD START ----------------\n"
PromptMiddle ==
    "\n---------------- JD END ------------------\n\n"
    \o "------------- RESUME START --------------\n"
PromptTail == "\n------------- RESUME END ----------------\n"

\* Lines 76-112: both texts are interpolated verbatim.
buildPrompt(jdText, resumeText) ==
    PromptHead \o jdText \o PromptMiddle \o resumeText \o PromptTail

-----------------------------------------------------------------------------
(* Requests and responses *)

\* A JSON value found where text: string is declared.
StringValue(s) == [type |-> "string", str |-> s]
UndefinedValue == [type |-> "undefined", str |-> ""]
NumberValue(s) == [type |-> "number", str |-> s]

\* JavaScript truthiness of such a value.
Truthy(v) ==
    CASE v.type = "string" -> v.str # ""
      [] v.type = "number" -> v.str # "0"
      [] OTHER -> FALSE

Resume(id, text) == [id |-> id, text |-> text]

\* The body req.json() yields: kind "malformed" makes req.json() throw,
\* kind "null" is the JSON value null, kind "object" is an object whose jd
\* and resumes members may be absent.
Body(j, rs) == [kind |-> "object", jd |-> j, resumes |-> rs]
MalformedBody == [kind |-> "malformed", jd |-> Null, resumes |-> Null]
NullBody == [kind |-> "null", jd |-> Null, resumes |-> Null]

Request(method, path, body) == [method |-> method, path |-> path, body |-> body]

CorsHeader == <<"Access-Control-Allow-Origin", "*">>

\* Lines 257-265
json(data, status) ==
    [status |-> status,
     headers |-> {<<"Content-Type", "application/json">>, CorsHeader},
     body |-> data]

\* Lines 154-161
PreflightResponse ==
    [status |-> 204,
     headers |-> {CorsHeader,
                  <<"Access-Control-Allow-Methods", "POST, OPTIONS">>,
                  <<"Access-Control-Allow-Headers", "Content-Type">>},
     body |-> Null]

\* Lines 243-248
NotFoundResponse == [status |-> 404, headers |-> {CorsHeader}, body |-> "Not found"]

MissingJd == "Missing 'jd' in request body"
NoResumes == "Provide at least one resume"
InternalError == "Internal server error while analyzing resumes. Check backend logs."
\* Line 212; the em dash of the source text is written "--" here.
FailedVerdict == "Analysis failed -- fallback verdict. Check backend logs."

\* How a handler run ends: it returns a response, or an exception leaves it.
Returned(response) == [kind |-> "response", response |-> Some(response), error |-> Null]
Uncaught(err) == [kind |-> "uncaught", response |-> Null, error |-> Some(err)]

\* Lines 228-237 with the exception thrown on instead of answered.
OuterCatchRethrows(err) == Uncaught(err)

\* Lines 228-237: the catch around the whole /analyze branch.
OuterCatch(err) == Returned(json([error |-> InternalError], 500))

\* Line 214
ErrorText(err) == IF err.isError THEN err.message ELSE err.string

\* Line 192 without the trim: only a missing or empty text is skipped.
SkipCheckNoTrim(r) ==
    IF ~Truthy(r.text) THEN "skip"
    ELSE IF r.text.type # "string" THEN "throw"
    ELSE "call"

\* Line 192: what the loop does with resume r before the per-candidate try.
SkipCheck(r) ==
    IF ~Truthy(r.text) THEN "skip"
    ELSE IF r.text.type # "string" THEN "throw"
    ELSE IF Trim(r.text.str) = "" THEN "skip"
    ELSE "call"

\* Lines 203-208 and 218-224: the entry of a candidate whose call returned.
ParsedEntry(id, text) ==
    LET p == parseModelOutput(text)
    IN  [id |-> id, fitScore |-> p.fitScore, riskScore |-> p.riskScore,
         verdict |-> p.verdict, report |-> p.report]

\* Lines 209-224 with the scores defaulted to 0 instead of left null.
DegradedEntryZero(id, err) ==
    [id |-> id, fitScore |-> Some(0), riskScore |-> Some(0),
     verdict |-> FailedVerdict, report |-> "Raw error: " \o ErrorText(err)]

\* Lines 209-224: the entry of a candidate whose call threw.
DegradedEntry(id, err) ==
    [id |-> id, fitScore |-> Null, riskScore |-> Null,
     verdict |-> FailedVerdict, report |-> "Raw error: " \o ErrorText(err)]

\* Lines 200-224: the per-candidate try/catch.
EntryFor(r, outcome) ==
    IF outcome.threw THEN DegradedEntry(r.id, outcome.error)
    ELSE ParsedEntry(r.id, runZypherTask(outcome))

\* Line 189 with results declared at module level: one array for all runs.
ResultsSlotShared(q) == 1

\* Line 189: results is a local of the handler run, one array per run.
ResultsSlot(q) == q

-----------------------------------------------------------------------------
(* Inputs *)

Reqs == 1..MaxRequests

\* All sequences over S of length at most n.
SeqsUpTo(S, n) == UNION {[1..k -> S] : k \in 0..n}

\* Resume entries: two with text, one with white space only (and the id of
\* another), one without text (and an empty id), one whose text is no string.
ResumeEntries ==
    {Resume("A", StringValue("5 years Go")),
     Resume("B", StringValue("React, some Go")),
     Resume("A", StringValue(" \n\t")),
     Resume("", UndefinedValue),
     Resume("E", NumberValue("5"))}

JdValues == {Null, Some(""), Some("  \n"), Some(" Backend engineer, Go ")}

Bodies ==
    {MalformedBody, NullBody}
    \cup {Body(j, Null) : j \in JdValues}
    \cup {Body(j, Some(rs)) : j \in JdValues, rs \in SeqsUpTo(ResumeEntries, MaxResumes)}

Requests ==
    {Request("OPTIONS", "/analyze", MalformedBody),
     Request("GET", "/analyze", MalformedBody),
     Request("POST", "/health", MalformedBody)}
    \cup {Request("POST", "/analyze", b) : b \in Bodies}

TaggedReply ==
    "FIT_SCORE: 9\nRISK_SCORE: 2\nVERDICT: Strong match.\nREPORT:\nAlignment: ...\n"

\* What a model call can do: stream a tagged reply in pieces (with an event
\* that carries no text in between), stream a reply without scores and with
\* an empty verdict line (and an empty delta), throw an Error, throw a value
\* that is no Error.
Outcomes ==
    {Completes(<<TextDelta("FIT_SCORE: 9\nRISK_SCORE: 2\n"), OtherEvent,
                 TextDelta("VERDICT: Strong match.\nREPORT:\nAlignment: ...\n")>>),
     Completes(<<TextEvent("I cannot score this resume.\nVERDICT:\n"), TextDelta("")>>),
     Fails(ErrorValue("Task timed out")),
     Fails(ThrownString("quota exceeded"))}

\* The requests and outcomes of the interleaved runs: the job descriptions
\* differ, and one candidate id occurs in both requests.
ConcRequests ==
    {Request("POST", "/analyze",
             Body(Some("Go engineer"),
                  Some(<<Resume("A", StringValue("5 years Go")),
                         Resume("B", StringValue("  ")),
                         Resume("C", StringValue("React"))>>))),
     Request("POST", "/analyze",
             Body(Some("Rust engineer"), Some(<<Resume("A", StringValue("Rust, C++"))>>)))}

ConcOutcomes ==
    {Completes(<<TextEvent(TaggedReply)>>),
     Fails(ErrorValue("Task timed out"))}

-----------------------------------------------------------------------------
(* The request handler *)

\* The loop without its continue: no resume is skipped.
NextStopNoSkip(rs, i) == i

\* The first resume at or after position i that the loop does not skip;
\* Len(rs) + 1 when it skips them all.
NextStop(rs, i) ==
    Min({j \in i..(Len(rs) + 1) : j = Len(rs) + 1 \/ SkipCheck(rs[j]) # "skip"})

\* Line 173 without the trim.
JdOfNoTrim(body) == IF body.jd = Null THEN "" ELSE body.jd[1]

\* Line 173
JdOf(body) == IF body.jd = Null THEN "" ELSE Trim(body.jd[1])

\* Line 174
ResumesOf(body) == IF body.resumes = Null THEN <<>> ELSE body.resumes[1]

\* Lines 176-187: the error the request is rejected with, <<>> if it passes.
ValidationError(jdText, rs) ==
    IF jdText = "" THEN Some(MissingJd)
    ELSE IF Len(rs) = 0 THEN Some(NoResumes)
    ELSE Null

\* Another handler run is suspended on its model call.
OthersAwaiting(q) == \E o \in Reqs \ {q} : pc[o] = "await"

\* The handler run q ends with outcome out.
Finish(q, out) ==
    /\ pc' = [pc EXCEPT ![q] = "done"]
    /\ responses' = [responses EXCEPT ![q] = Append(@, out)]

\* Lines 191-227 from position i of the loop up to the next suspension: the
\* run skips blank resumes, then starts the call of the next one and
\* suspends, or leaves the loop and returns the results, or throws outside
\* the per-candidate try. log is the run's call log so far; the caller sets
\* results'.
RunLoop(q, jdText, rs, i, log) ==
    LET j == NextStop(rs, i)
    IN  /\ idx' = [idx EXCEPT ![q] = j]
        /\ IF j > Len(rs)
           THEN /\ Finish(q, Returned(json([results |-> results'[ResultsSlot(q)]], 200)))
                /\ calls' = [calls EXCEPT ![q] = log]
                /\ UNCHANGED thrown
           ELSE IF SkipCheck(rs[j]) = "throw"
           THEN /\ thrown' = [thrown EXCEPT ![q] =
                       Some(ErrorValue("r.text.trim is not a function"))]
                /\ Finish(q, OuterCatch(thrown'[q][1]))
                /\ calls' = [calls EXCEPT ![q] = log]
           ELSE /\ pc' = [pc EXCEPT ![q] = "await"]
                /\ calls' = [calls EXCEPT ![q] =
                       Append(log, [index |-> j,
                                    prompt |-> buildPrompt(jdText, rs[j].text.str),
                                    concurrent |-> OthersAwaiting(q),
                                    outcome |-> Null])]
                /\ UNCHANGED <<thrown, responses>>

\* Lines 150-166 and 243-248: a request arrives; the preflight and the
\* routes other than POST /analyze are answered at once, POST /analyze
\* suspends on req.json().
Receive(q, r) ==
    /\ pc[q] = "idle"
    /\ req' = [req EXCEPT ![q] = Some(r)]
    /\ IF r.method = "OPTIONS" THEN Finish(q, Returned(PreflightResponse))
       ELSE IF r.path = "/analyze" /\ r.method = "POST"
            THEN pc' = [pc EXCEPT ![q] = "json"] /\ UNCHANGED responses
            ELSE Finish(q, Returned(NotFoundResponse))
    /\ UNCHANGED <<jd, resumes, idx, results, calls, thrown>>

\* Lines 168-201: the body arrives; the run validates it and enters the loop.
ReadBody(q) ==
    LET body == req[q][1].body
        jdText == JdOf(body)
        rs == ResumesOf(body)
    IN  /\ pc[q] = "json"
        /\ IF body.kind # "object"
           THEN /\ thrown' = [thrown EXCEPT ![q] =
                       Some(ErrorValue(IF body.kind = "malformed"
                                       THEN "Unexpected token in JSON"
                                       ELSE "Cannot read properties of null"))]
                /\ Finish(q, OuterCatch(thrown'[q][1]))
                /\ UNCHANGED <<jd, resumes, idx, results, calls>>
           ELSE /\ jd' = [jd EXCEPT ![q] = jdText]
                /\ resumes' = [resumes EXCEPT ![q] = rs]
                /\ IF ValidationError(jdText, rs) # Null
                   THEN /\ Finish(q, Returned(json([error |-> ValidationError(jdText, rs)[1]], 400)))
                        /\ UNCHANGED <<idx, results, calls, thrown>>
                   ELSE /\ results' = [results EXCEPT ![ResultsSlot(q)] = <<>>]
                        /\ RunLoop(q, jdText, rs, 1, calls[q])
        /\ UNCHANGED req

\* Lines 201-225: the model call of run q completes with outcome o; the run
\* pushes the candidate's entry and goes on with the loop.
ModelReplies(q, o) ==
    /\ pc[q] = "await"
    /\ results' = [results EXCEPT ![ResultsSlot(q)] =
                      Append(@, EntryFor(resumes[q][idx[q]], o))]
    /\ RunLoop(q, jd[q], resumes[q], idx[q] + 1,
               [calls[q] EXCEPT ![Len(calls[q])].outcome = Some(o)])
    /\ UNCHANGED <<req, jd, resumes>>

ServerInit ==
    /\ req = [q \in Reqs |-> Null]
    /\ pc = [q \in Reqs |-> "idle"]
    /\ jd = [q \in Reqs |-> ""]
    /\ resumes = [q \in Reqs |-> <<>>]
    /\ idx = [q \in Reqs |-> 0]
    /\ results = [q \in Reqs |-> <<>>]
    /\ calls = [q \in Reqs |-> <<>>]
    /\ thrown = [q \in Reqs |-> Null]
    /\ responses = [q \in Reqs |-> <<>>]

ParserIdle ==
    /\ raw = ""
    /\ parsed = Null
    /\ tmpl = Null
    /\ phase = "init"

Init == ServerInit /\ ParserIdle

\* One handler run, over every request.
Next ==
    \/ \E r \in Requests : Receive(1, r) /\ UNCHANGED parserVars
    \/ ReadBody(1) /\ UNCHANGED parserVars
    \/ \E o \in Outcomes : ModelReplies(1, o) /\ UNCHANGED parserVars

Spec == Init /\ [][Next]_vars

\* MaxRequests handler runs in progress at once, interleaved at their
\* suspension points.
ConcNext ==
    \/ \E q \in Reqs, r \in ConcRequests : Receive(q, r) /\ UNCHANGED parserVars
    \/ \E q \in Reqs : ReadBody(q) /\ UNCHANGED parserVars
    \/ \E q \in Reqs, o \in ConcOutcomes : ModelReplies(q, o) /\ UNCHANGED parserVars

ConcSpec == Init /\ [][ConcNext]_vars

-----------------------------------------------------------------------------
(* What a request submitted, read from the request itself *)

Done(q) == pc[q] = "done"

IsAnalyze(q) ==
    /\ req[q] # Null
    /\ req[q][1].method = "POST"
    /\ req[q][1].path = "/analyze"
    /\ req[q][1].body.kind = "object"

\* The resumes list of the request body, empty when the member is absent.
Submitted(q) ==
    IF req[q][1].body.resumes = Null THEN <<>> ELSE req[q][1].body.resumes[1]

\* The jd of the request body is absent, empty or all white space.
JdBlank(q) ==
    \/ req[q][1].body.jd = Null
    \/ \A i \in 1..Len(req[q][1].body.jd[1]) : IsWhiteSpace(CharAt(req[q][1].body.jd[1], i))

\* The text of resume r is a string with a character that is no white space.
NonBlank(r) ==
    /\ r.text.type = "string"
    /\ \E i \in 1..Len(r.text.str) : ~IsWhiteSpace(CharAt(r.text.str, i))

\* Every text of the body is a string or absent, as ResumeInput declares.
WellTyped(q) ==
    \A i \in 1..Len(Submitted(q)) : Submitted(q)[i].text.type \in {"string", "undefined"}

\* The positions of the non-blank resumes of the request, in input order.
NonBlankPositions(q) ==
    LET S == {i \in 1..Len(Submitted(q)) : NonBlank(Submitted(q)[i])}
        Nth[k \in 1..Cardinality(S)] ==
            IF k = 1 THEN Min(S) ELSE Min({i \in S : i > Nth[k - 1]})
    IN  [k \in 1..Cardinality(S) |-> Nth[k]]

PassesValidation(q) == IsAnalyze(q) /\ ~JdBlank(q) /\ Len(Submitted(q)) > 0

\* The response of a run that returned one.
ResponseOf(q) == responses[q][1].response[1]

Answered(q, status) ==
    /\ Done(q)
    /\ Len(responses[q]) = 1
    /\ responses[q][1].kind = "response"
    /\ ResponseOf(q).status = status

\* The calls of run q that are still in flight.
InFlight(q) == {k \in 1..Len(calls[q]) : calls[q][k].outcome = Null}

-----------------------------------------------------------------------------
(* Claims about the request handler *)

\* C1: a request that passes validation (with texts typed as declared) is
\* answered 200, and the ids of the results of a 200 response are the ids of
\* the resumes whose text is non-empty after trimming, one entry each, in
\* input order, whatever the ids and whichever calls failed.
C1_ResultIdsAreNonBlankIds ==
    \A q \in Reqs :
        /\ (Done(q) /\ PassesValidation(q) /\ WellTyped(q)) => Answered(q, 200)
        /\ Answered(q, 200) =>
               LET res == ResponseOf(q).body.results
                   pos == NonBlankPositions(q)
               IN  /\ Len(res) = Len(pos)
                   /\ \A k \in 1..Len(res) : res[k].id = Submitted(q)[pos[k]].id

\* Three resumes, the second of white space only and carrying the id of the
\* first: two results, and one of the two calls failed.
C1_Witness ==
    /\ Answered(1, 200)
    /\ Len(Submitted(1)) = 3
    /\ Submitted(1)[2] = Resume("A", StringValue(" \n\t"))
    /\ Len(ResponseOf(1).body.results) = 2
    /\ \E k \in 1..Len(calls[1]) : calls[1][k].outcome[1].threw

\* C2: whichever model calls fail, a validated request is answered 200 with
\* one entry per non-blank resume: the degraded entry (null scores, the fixed
\* failure verdict, the error's message in the report) where the call failed,
\* and the entry parsed from the candidate's own reply where it did not.
C2_FailureIsolation ==
    \A q \in Reqs :
        /\ (Done(q) /\ PassesValidation(q) /\ WellTyped(q)) => Answered(q, 200)
        /\ Answered(q, 200) =>
               LET res == ResponseOf(q).body.results
                   pos == NonBlankPositions(q)
               IN  /\ Len(res) = Len(pos)
                   /\ Len(calls[q]) = Len(pos)
                   /\ \A k \in 1..Len(pos) :
                          LET o == calls[q][k].outcome[1]
                              p == parseModelOutput(Trim(Accumulate(o.events)))
                          IN  IF o.threw
                              THEN res[k] =
                                     [id |-> Submitted(q)[pos[k]].id,
                                      fitScore |-> Null,
                                      riskScore |-> Null,
                                      verdict |-> "Analysis failed -- fallback verdict. Check backend logs.",
                                      report |-> "Raw error: " \o
                                          (IF o.error.isError THEN o.error.message
                                           ELSE o.error.string)]
                              ELSE res[k] =
                                     [id |-> Submitted(q)[pos[k]].id,
                                      fitScore |-> p.fitScore,
                                      riskScore |-> p.riskScore,
                                      verdict |-> p.verdict,
                                      report |-> p.report]

\* Three candidates; the call of the second threw, those of the first and
\* the third returned the tagged reply.
C2_Witness ==
    /\ Answered(1, 200)
    /\ Len(calls[1]) = 3
    /\ ~calls[1][1].outcome[1].threw
    /\ calls[1][2].outcome[1].threw
    /\ ~calls[1][3].outcome[1].threw
    /\ ResponseOf(1).body.results[1].fitScore = Some(9)
    /\ ResponseOf(1).body.results[2].fitScore = Null
    /\ ResponseOf(1).body.results[3].fitScore = Some(9)

\* C3 as stated: a blank jd is rejected with 400 and the jd message, an
\* empty resumes list is rejected with 400 and the resumes message, and a
\* rejected request makes no model call.
C3_AsStated ==
    \A q \in Reqs :
        (Done(q) /\ IsAnalyze(q)) =>
            /\ JdBlank(q) =>
                   /\ Answered(q, 400)
                   /\ ResponseOf(q).body = [error |-> "Missing 'jd' in request body"]
                   /\ calls[q] = <<>>
            /\ req[q][1].body.resumes = Some(<<>>) =>
                   /\ Answered(q, 400)
                   /\ ResponseOf(q).body = [error |-> "Provide at least one resume"]
                   /\ calls[q] = <<>>

\* C3, amended: the jd is checked first, so the resumes message is the
\* answer to an empty (or absent) resumes list only when the jd is not
\* blank; neither kind of request ever makes a model call.
C3_ValidationGate ==
    \A q \in Reqs :
        /\ (IsAnalyze(q) /\ (JdBlank(q) \/ Len(Submitted(q)) = 0)) => calls[q] = <<>>
        /\ (Done(q) /\ IsAnalyze(q)) =>
               /\ JdBlank(q) =>
                      /\ Answered(q, 400)
                      /\ ResponseOf(q).body = [error |-> "Missing 'jd' in request body"]
               /\ (~JdBlank(q) /\ Len(Submitted(q)) = 0) =>
                      /\ Answered(q, 400)
                      /\ ResponseOf(q).body = [error |-> "Provide at least one resume"]

\* A request with a jd and an empty resumes list, rejected.
C3_Witness ==
    /\ Answered(1, 400)
    /\ req[1][1].body.jd = Some(" Backend engineer, Go ")
    /\ req[1][1].body.resumes = Some(<<>>)
    /\ ResponseOf(1).body = [error |-> NoResumes]
    /\ calls[1] = <<>>

\* C4: the k-th call of a run is for the k-th non-blank resume of its request
\* (so calls start in input order, once per non-blank resume, never for a
\* blank one); only the call started last can be in flight; the run answers
\* only when no call is in flight, and a 200 answer comes after the call of
\* every non-blank resume.
C4_SequentialCalls ==
    \A q \in Reqs :
        /\ calls[q] # <<>> => IsAnalyze(q)
        /\ IsAnalyze(q) =>
               /\ Len(calls[q]) <= Len(NonBlankPositions(q))
               /\ \A k \in 1..Len(calls[q]) : calls[q][k].index = NonBlankPositions(q)[k]
               /\ Answered(q, 200) => Len(calls[q]) = Len(NonBlankPositions(q))
        /\ InFlight(q) \subseteq {Len(calls[q])}
        /\ (pc[q] = "await") <=> (InFlight(q) # {})
        /\ responses[q] # <<>> => InFlight(q) = {}

\* Blank, non-blank, non-blank: the second call is in flight, the first has
\* completed, nothing is answered yet.
C4_Witness ==
    /\ pc[1] = "await"
    /\ Len(Submitted(1)) = 3
    /\ ~NonBlank(Submitted(1)[1])
    /\ Len(calls[1]) = 2
    /\ calls[1][1].outcome # Null
    /\ calls[1][2].index = 3
    /\ responses[1] = <<>>

\* C7: a handler run ends with exactly one response and never with an
\* exception; when an exception was raised outside the per-candidate try, the
\* response is 500 and its body is the fixed message and nothing else.
C7_OneResponseNoEscape ==
    \A q \in Reqs :
        /\ Len(responses[q]) <= 1
        /\ Done(q) <=> (Len(responses[q]) = 1)
        /\ \A i \in 1..Len(responses[q]) : responses[q][i].kind = "response"
        /\ thrown[q] # Null =>
               /\ Answered(q, 500)
               /\ ResponseOf(q).body =
                      [error |-> "Internal server error while analyzing resumes. Check backend logs."]

\* A body that is no JSON: req.json() threw.
C7_Witness ==
    /\ req[1] # Null
    /\ req[1][1].body.kind = "malformed"
    /\ thrown[1] # Null
    /\ Answered(1, 500)

\* C8: with runs interleaved, every prompt of a run is built from its own jd
\* and its own resume, and its 200 response holds, in its own input order,
\* one entry per non-blank resume of its own request, made from the outcome
\* of its own call for that resume.
C8_RunsDoNotInterfere ==
    \A q \in Reqs :
        IsAnalyze(q) =>
            LET pos == NonBlankPositions(q)
            IN  /\ Len(calls[q]) <= Len(pos)
                /\ \A k \in 1..Len(calls[q]) :
                       calls[q][k].prompt =
                           buildPrompt(Trim(req[q][1].body.jd[1]), Submitted(q)[pos[k]].text.str)
                /\ Answered(q, 200) =>
                       ResponseOf(q).body.results =
                           [k \in 1..Len(pos) |->
                               EntryFor(Submitted(q)[pos[k]], calls[q][k].outcome[1])]

\* Two runs, both answered 200, each of which started a call while the
\* other was suspended on one.
C8_Witness ==
    /\ Answered(1, 200)
    /\ Answered(2, 200)
    /\ \E k \in 1..Len(calls[1]) : calls[1][k].concurrent
    /\ \E k \in 1..Len(calls[2]) : calls[2][k].concurrent
    /\ req[1] # req[2]

-----------------------------------------------------------------------------
(* The parser on its own *)

\* Lines 92-96: the reply format the prompt asks for, filled in.
Template(t) ==
    "FIT_SCORE: " \o IntToString(t.f) \o "\nRISK_SCORE: " \o IntToString(t.r)
    \o "\nVERDICT: " \o t.v \o "\nREPORT:\n" \o t.body

TemplateScores == {-3, 0, 7, 12}

TemplateVerdicts ==
    {"Strong match.", " Weak fit. ", "", "See report: below", "FIT_SCORE: 1 is unfair"}

TemplateBodies ==
    {"Alignment: ok\nGaps: none", "", "  indented\nbody\n",
     "VERDICT: hire\nREPORT:\nnested", "RISK_SCORE: 0"}

Templates ==
    [f : TemplateScores, r : {-1, 2, 10}, v : TemplateVerdicts, body : TemplateBodies]

\* Text a model may put before the tagged part.
Proses ==
    {"Sure! Here is my analysis:\n",
     "Here is the report:\n",
     "My verdict: hire.\n",
     "fit_score: 3 was my first guess. ",
     "Score pending, FIT_SCORE ",
     "Risk_Score :1\n"}

\* The pieces arbitrary raw replies are made of.
Tokens ==
    {"REPORT:", "Report :", "VERDICT:", "verdict :", "fit_score:", " ", "\n",
     "7", "Good fit", "x\ty", "FIT_SCORE :", "Risk_Score:", "99"}

RECURSIVE Join(_)
Join(pieces) == IF pieces = <<>> THEN "" ELSE Head(pieces) \o Join(Tail(pieces))

RawTexts == {Join(p) : p \in SeqsUpTo(Tokens, MaxTokens)}

\* parseModelOutput is applied to text s; t and p record what s was built from.
Parse(s, t, ph) ==
    /\ phase = "init"
    /\ raw' = s
    /\ parsed' = Some(parseModelOutput(s))
    /\ tmpl' = t
    /\ phase' = ph
    /\ UNCHANGED serverVars

ParseTemplate(t) == Parse(Template(t), Some([t |-> t, prose |-> ""]), "template")

ParseWithProse(t, p) == Parse(p \o Template(t), Some([t |-> t, prose |-> p]), "prose")

ParseRaw(s) == Parse(s, Null, "raw")

ParseNext ==
    \/ \E t \in Templates : ParseTemplate(t)
    \/ \E t \in Templates, p \in Proses : ParseWithProse(t, p)
    \/ \E s \in RawTexts : ParseRaw(s)

ParseSpec == Init /\ [][ParseNext]_vars

-----------------------------------------------------------------------------
(* Claims about the parser *)

HasNonSpace(s) == \E i \in 1..Len(s) : ~IsWhiteSpace(CharAt(s, i))

SingleLine(s) == \A i \in 1..Len(s) : ~IsLineTerminator(CharAt(s, i))

\* Text s holds the tag, then optional white space, then a colon, in any case.
HasMarker(s, tag) == \E i \in 1..Len(s) : MarkerEnd(s, i, tag) # 0

HasAnyMarker(s) ==
    \E tag \in {"FIT_SCORE", "RISK_SCORE", "VERDICT", "REPORT"} : HasMarker(s, tag)

\* The template parts for which the round trip holds: scores that are no
\* negative numbers, a verdict of one line that is not blank and holds no
\* REPORT: marker.
RoundTrips(t) ==
    /\ t.f >= 0
    /\ t.r >= 0
    /\ SingleLine(t.v)
    /\ HasNonSpace(t.v)
    /\ ~HasMarker(t.v, "REPORT")

\* C5 as stated: the template built from any integers f and r, any one-line
\* verdict v and any body parses to exactly f, r, v and body. (The blank
\* verdict, where the parser takes the verdict from the next line, is the
\* subject of C10 and is left out here.)
C5_AsStated ==
    (phase = "template" /\ SingleLine(tmpl[1].t.v) /\ HasNonSpace(tmpl[1].t.v)) =>
        parsed[1] = [fitScore |-> Some(tmpl[1].t.f),
                     riskScore |-> Some(tmpl[1].t.r),
                     verdict |-> tmpl[1].t.v,
                     report |-> tmpl[1].t.body]

\* C5, amended: for f and r not negative and a one-line verdict v that is not
\* blank and holds no REPORT: marker, the template parses to f, r, v trimmed
\* and body trimmed.
C5_RoundTrip ==
    (phase = "template" /\ RoundTrips(tmpl[1].t)) =>
        parsed[1] = [fitScore |-> Some(tmpl[1].t.f),
                     riskScore |-> Some(tmpl[1].t.r),
                     verdict |-> Trim(tmpl[1].t.v),
                     report |-> Trim(tmpl[1].t.body)]

\* A padded verdict and a body with white space at both ends, both trimmed.
C5_Witness ==
    /\ phase = "template"
    /\ tmpl[1].t = [f |-> 12, r |-> 10, v |-> " Weak fit. ", body |-> "  indented\nbody\n"]
    /\ raw = "FIT_SCORE: 12\nRISK_SCORE: 10\nVERDICT:  Weak fit. \nREPORT:\n  indented\nbody\n"
    /\ parsed[1] = [fitScore |-> Some(12), riskScore |-> Some(10),
                    verdict |-> "Weak fit.", report |-> "indented\nbody"]

\* C6 as stated: whatever prose precedes the tagged part, the four fields are
\* those of the tagged part alone.
C6_AsStated ==
    phase = "prose" => parsed[1] = parseModelOutput(Template(tmpl[1].t))

\* C6, amended: prose that holds none of the four tags followed by optional
\* white space and a colon changes none of the four fields; where the
\* template round-trips, the fields are f, r, v trimmed and body trimmed.
C6_LeadingProse ==
    (phase = "prose" /\ ~HasAnyMarker(tmpl[1].prose)) =>
        /\ parsed[1] = parseModelOutput(Template(tmpl[1].t))
        /\ RoundTrips(tmpl[1].t) =>
               parsed[1] = [fitScore |-> Some(tmpl[1].t.f),
                            riskScore |-> Some(tmpl[1].t.r),
                            verdict |-> Trim(tmpl[1].t.v),
                            report |-> Trim(tmpl[1].t.body)]

\* Prose that ends with a colon and a line break, ignored.
C6_Witness ==
    /\ phase = "prose"
    /\ tmpl[1].prose = "Sure! Here is my analysis:\n"
    /\ raw = "Sure! Here is my analysis:\nFIT_SCORE: 7\nRISK_SCORE: 2\nVERDICT: Strong match.\nREPORT:\nAlignment: ok\nGaps: none"
    /\ parsed[1] = [fitScore |-> Some(7), riskScore |-> Some(2),
                    verdict |-> "Strong match.", report |-> "Alignment: ok\nGaps: none"]

\* C9 as stated: with no REPORT: marker the report is the raw text; with a
\* marker and a line break after it, the report is what follows the first
\* such line break, trimmed; with a marker and no line break after it, the
\* report is what follows the marker, trimmed, the marker excluded.
C9_AsStated ==
    phase # "init" =>
        LET starts == {i \in 1..Len(raw) : MarkerEnd(raw, i, "REPORT") # 0}
            rest == SliceFrom(raw, MarkerEnd(raw, Min(starts), "REPORT"))
            lineBreak == IndexOf(rest, "\n")
        IN  IF starts = {} THEN parsed[1].report = raw
            ELSE IF lineBreak # 0
                 THEN parsed[1].report = Trim(SliceFrom(rest, lineBreak + 1))
                 ELSE parsed[1].report = Trim(rest)

\* C10 as stated: with a VERDICT: tag the verdict is the rest of the line of
\* the first tag, trimmed (never text of a later line); the fallback is the
\* verdict only when there is no tag.
C10_AsStated ==
    phase # "init" =>
        LET starts == {i \in 1..Len(raw) : MarkerEnd(raw, i, "VERDICT") # 0}
            from == MarkerEnd(raw, Min(starts), "VERDICT")
            ends == {j \in from..Len(raw) : IsLineTerminator(CharAt(raw, j))}
            to == IF ends = {} THEN Len(raw) ELSE Min(ends) - 1
        IN  IF starts = {} THEN parsed[1].verdict = "No clear verdict parsed"
            ELSE parsed[1].verdict = Trim(SubSeq(raw, from, to))


\* The value of the run of decimal digits that starts at position k of s,
\* read digit by digit from the left.
RECURSIVE DigitRunValue(_, _, _)
DigitRunValue(s, k, acc) ==
    IF k <= Len(s) /\ IsDigit(CharAt(s, k))
    THEN DigitRunValue(s, k + 1,
             10 * acc + (CHOOSE d \in 0..9 : CharAt("0123456789", d + 1) = CharAt(s, k)))
    ELSE acc

\* The positions of s where the tag (in any case), optional white space, a
\* colon, optional white space and a digit follow one another.
TagAndDigits(s, tag) ==
    {i \in 1..Len(s) :
        /\ MarkerEnd(s, i, tag) # 0
        /\ SkipSpaces(s, MarkerEnd(s, i, tag)) <= Len(s)
        /\ IsDigit(CharAt(s, SkipSpaces(s, MarkerEnd(s, i, tag))))}

\* The score the claim gives for the tag: null without a tag-and-digits
\* pattern, else the value of the digit run of the first one, unclamped.
ClaimedScore(s, tag) ==
    IF TagAndDigits(s, tag) = {} THEN Null
    ELSE Some(DigitRunValue(s, SkipSpaces(s, MarkerEnd(s, Min(TagAndDigits(s, tag)), tag)), 0))

\* C11: after every parser run there is a result (no error is raised), and
\* fitScore and riskScore are the value of the digit run of the first
\* FIT_SCORE / RISK_SCORE tag-and-digits pattern, in any case and with any
\* white space around the colon, null when there is none, and never clamped.
C11_ScoresAreDigitRuns ==
    phase # "init" =>
        /\ parsed # Null
        /\ parsed[1].fitScore = ClaimedScore(raw, "FIT_SCORE")
        /\ parsed[1].riskScore = ClaimedScore(raw, "RISK_SCORE")

\* FIT_SCORE : 99, with white space on both sides of the colon, gives 99.
C11_Witness ==
    /\ phase = "raw"
    /\ raw = "FIT_SCORE : 99"
    /\ parsed[1].fitScore = Some(99)
    /\ parsed[1].riskScore = Null

====
